---- MODULE Spec2Model ----
(***************************************************************************)
(* Procedure management of scratch-blocks: Blockly.Procedures              *)
(* (src/unnamed/part_000) and the reconciliation pass of the workspace,    *)
(* Blockly.WorkspaceSvg.prototype.processProcedureReturnsChanged_          *)
(* (src/core/newFile.js).                                                  *)
(*                                                                         *)
(* A workspace is the list of its top blocks.  Each top block stands for   *)
(* its stack: the list block.getDescendants(false) of the blocks below it, *)
(* the top block first.  A block is a record                               *)
(*   id        block.id                                                    *)
(*   type      block.type                                                  *)
(*   procCode  block.getProcCode(), "" for a block that has none           *)
(*   ret       block.getReturn(), of a procedures_call block               *)
(*   marker    block.isInsertionMarker()                                   *)
(*   hex       block.outputShape_ === Blockly.OUTPUT_SHAPE_HEXAGONAL       *)
(*   parent    id of the parent block, 0 for a top block                   *)
(*   att       the connection of the parent that holds the block           *)
(***************************************************************************)
EXTENDS Integers, Sequences, FiniteSets, TLC

VARIABLES
  topBlocks,                    \* workspace.topBlocks_, a sequence of stacks
  initialProcedureReturnTypes_, \* the snapshot taken before the edits
  USER_CAN_CHANGE_CALL_TYPE,    \* Blockly.Procedures.USER_CAN_CHANGE_CALL_TYPE
  group,                        \* Blockly.Events.getGroup() is not ''
  isFlyout,                     \* workspace.isFlyout, block.isInFlyout of its blocks
  frame,                        \* the call of findLegalName that is running
  calls,                        \* the calls of findLegalName and rename made so far
  DEFAULT_ENABLE_RETURNS,       \* Blockly.Procedures.DEFAULT_ENABLE_RETURNS
  procedureReturnsEnabled,      \* workspace.procedureReturnsEnabled
  last                          \* the operation that ran last, and its effects

\* What decides whether the flyout shows the return block; no operation of
\* the model writes it.
returnsSettings == <<DEFAULT_ENABLE_RETURNS, procedureReturnsEnabled>>

vars == <<topBlocks, initialProcedureReturnTypes_, USER_CAN_CHANGE_CALL_TYPE,
          group, isFlyout, frame, calls, returnsSettings, last>>

----------------------------------------------------------------------------
(* Bounds of the model. *)

\* Top blocks of a workspace.
MaxTop == 2

\* Statements below the prototype of a definition.
MaxBody == 2

\* Blocks of a workspace of named procedures.
MaxNamed == 3

\* Characters of a proposed procedure name.
MaxNameLen == 2

\* Calls of findLegalName and rename in one behaviour.
MaxCalls == 1

----------------------------------------------------------------------------
(* Constants of the program. *)

PROCEDURES_CALL_TYPE_STATEMENT == "statement"
PROCEDURES_CALL_TYPE_REPORTER == "reporter"
PROCEDURES_CALL_TYPE_BOOLEAN == "boolean"

ReturnTypes ==
  {PROCEDURES_CALL_TYPE_STATEMENT, PROCEDURES_CALL_TYPE_REPORTER,
   PROCEDURES_CALL_TYPE_BOOLEAN}

PROCEDURES_DEFINITION_BLOCK_TYPE == "procedures_definition"
PROCEDURES_PROTOTYPE_BLOCK_TYPE == "procedures_prototype"
PROCEDURES_CALL_BLOCK_TYPE == "procedures_call"
PROCEDURES_RETURN_BLOCK_TYPE == "procedures_return"

\* Any block that is none of the above.
OTHER_BLOCK_TYPE == "other"

\* The procCodes of the model.
ProcCodes == {"p", "q"}

----------------------------------------------------------------------------
(* Blocks and stacks. *)

Block(id, type, procCode, ret, marker, hex, parent, att) ==
  [id |-> id, type |-> type, procCode |-> procCode, ret |-> ret,
   marker |-> marker, hex |-> hex, parent |-> parent, att |-> att]

\* block.getNextBlock() of the top block of a stack, as a truth value.
getNextBlock(stack) ==
  \E i \in 1..Len(stack) :
    stack[i].parent = stack[1].id /\ stack[i].att = "next"

\* block.getInput('custom_block').connection.targetBlock() of a definition.
customBlock(stack) ==
  stack[CHOOSE i \in 1..Len(stack) :
          stack[i].parent = stack[1].id /\ stack[i].att = "custom_block"]

\* The index in the workspace of the stack whose top block has this id, 0
\* when there is none.
TopIndex(ws, id) ==
  IF \E k \in 1..Len(ws) : ws[k][1].id = id
  THEN CHOOSE k \in 1..Len(ws) : ws[k][1].id = id
  ELSE 0

\* A sequence without its k-th element.
RemoveAt(s, k) == SubSeq(s, 1, k - 1) \o SubSeq(s, k + 1, Len(s))

----------------------------------------------------------------------------
(* Blockly.Procedures.getBlockReturnType: the return type of a definition, *)
(* read off the list of its descendants.                                   *)

RECURSIVE getBlockReturnTypeLoop(_, _, _)
getBlockReturnTypeLoop(descendants, i, hasSeenBooleanReturn) ==
  IF i > Len(descendants)
  THEN IF hasSeenBooleanReturn
       THEN PROCEDURES_CALL_TYPE_BOOLEAN
       ELSE PROCEDURES_CALL_TYPE_STATEMENT
  ELSE IF descendants[i].type = PROCEDURES_RETURN_BLOCK_TYPE
       THEN IF i + 1 <= Len(descendants) /\ descendants[i + 1].hex
            THEN getBlockReturnTypeLoop(descendants, i + 1, TRUE)
            ELSE PROCEDURES_CALL_TYPE_REPORTER
       ELSE getBlockReturnTypeLoop(descendants, i + 1, hasSeenBooleanReturn)

\* The first return block alone decides.
getBlockReturnTypeOfFirstReturn(stack) ==
  LET returns == {i \in 1..Len(stack) :
                    stack[i].type = PROCEDURES_RETURN_BLOCK_TYPE}
      first == CHOOSE i \in returns : \A j \in returns : i <= j
  IN IF returns = {} THEN PROCEDURES_CALL_TYPE_STATEMENT
     ELSE IF first + 1 <= Len(stack) /\ stack[first + 1].hex
          THEN PROCEDURES_CALL_TYPE_BOOLEAN
          ELSE PROCEDURES_CALL_TYPE_REPORTER

\* Lines 793-819, over the list block.getDescendants() of the definition.
getBlockReturnType(stack) == getBlockReturnTypeLoop(stack, 1, FALSE)

(* Blockly.Procedures.getAllProcedureReturnTypes: the type of the first    *)
(* top-level definition of each procCode, insertion markers left out.      *)

RECURSIVE getAllProcedureReturnTypesLoop(_, _, _)
getAllProcedureReturnTypesLoop(blocks, i, result) ==
  IF i > Len(blocks) THEN result
  ELSE LET block == blocks[i][1]
           procCode == customBlock(blocks[i]).procCode
       IN IF block.type = PROCEDURES_DEFINITION_BLOCK_TYPE /\ ~block.marker
             /\ procCode \notin DOMAIN result
          THEN getAllProcedureReturnTypesLoop(blocks, i + 1,
                 [c \in DOMAIN result \cup {procCode} |->
                    IF c = procCode THEN getBlockReturnType(blocks[i])
                    ELSE result[c]])
          ELSE getAllProcedureReturnTypesLoop(blocks, i + 1, result)

getAllProcedureReturnTypes(ws) ==
  getAllProcedureReturnTypesLoop(ws, 1, [c \in {} |-> PROCEDURES_CALL_TYPE_STATEMENT])

----------------------------------------------------------------------------
(* Blockly.Procedures.changeReturnType: the block is unplugged (healing    *)
(* the stack), serialised, disposed of, and created again from the patched *)
(* XML.  The XML holds the id of the block and the blocks in its inputs,   *)
(* so the new block has the old id; it is a new top block, added at the    *)
(* end of the workspace's list.                                            *)

\* The id of the parent of the block with this id.
ParentOf(stack, id) ==
  stack[CHOOSE i \in 1..Len(stack) : stack[i].id = id].parent

\* The block with this id is the block anc or lies below it.
RECURSIVE IsUnder(_, _, _)
IsUnder(stack, id, anc) ==
  \/ id = anc
  \/ /\ id # stack[1].id
     /\ IsUnder(stack, ParentOf(stack, id), anc)

\* The id of the block on the next connection of the top block.
NextId(stack) ==
  stack[CHOOSE i \in 1..Len(stack) :
          stack[i].parent = stack[1].id /\ stack[i].att = "next"].id

\* The stack without the blocks from its top block's next block on.
OwnBlocks(stack) ==
  IF getNextBlock(stack)
  THEN SelectSeq(stack, LAMBDA b : ~IsUnder(stack, b.id, NextId(stack)))
  ELSE stack

\* The stack that starts at the top block's next block, as a stack of its
\* own.
NextStack(stack) ==
  LET n == NextId(stack)
      below == SelectSeq(stack, LAMBDA b : IsUnder(stack, b.id, n))
  IN [i \in 1..Len(below) |->
        IF below[i].id = n
        THEN [below[i] EXCEPT !.parent = 0, !.att = "top"]
        ELSE below[i]]

\* block.unplug(true) of the top block of stack k: a top block has no
\* parent to leave; its next block is disconnected and becomes a top block.
unplug(ws, k) ==
  IF getNextBlock(ws[k])
  THEN [ws EXCEPT ![k] = OwnBlocks(ws[k])] \o <<NextStack(ws[k])>>
  ELSE ws

\* mutation.setAttribute('return', returnType) on the serialised block; the
\* block made from it has the shape of its return type.
setReturnAttribute(stack, returnType) ==
  [stack EXCEPT ![1].ret = returnType,
                ![1].hex = (returnType = PROCEDURES_CALL_TYPE_BOOLEAN)]

\* The places inside changeReturnType where a host call may throw: before
\* anything has changed, or after the block has been disposed of.
ThrowPoints == {"unplug", "domToBlock"}

\* changeReturnType on the top block with this id.  throws is "" for a call
\* that returns, or the place where it throws.
changeReturnType(ws, id, returnType, throws) ==
  IF throws = "unplug" THEN ws
  ELSE LET k == TopIndex(ws, id)
           unplugged == unplug(ws, k)
           xml == unplugged[k]
           disposed == RemoveAt(unplugged, k)
       IN IF throws = "domToBlock" THEN disposed
          ELSE disposed \o <<setReturnAttribute(xml, returnType)>>

----------------------------------------------------------------------------
(* Blockly.WorkspaceSvg.prototype.processProcedureReturnsChanged_.         *)

\* The pass also looks at call blocks that have a block below them.
IsEligibleWithNextBlock(stack, initialTypes, finalTypes) ==
  /\ stack[1].type = PROCEDURES_CALL_BLOCK_TYPE
  /\ ~stack[1].marker
  /\ stack[1].procCode \in DOMAIN initialTypes
  /\ stack[1].procCode \in DOMAIN finalTypes

\* Lines 60-78: the top blocks the pass looks at.
IsEligible(stack, initialTypes, finalTypes) ==
  /\ stack[1].type = PROCEDURES_CALL_BLOCK_TYPE
  /\ ~stack[1].marker
  /\ ~getNextBlock(stack)
  /\ stack[1].procCode \in DOMAIN initialTypes
  /\ stack[1].procCode \in DOMAIN finalTypes

\* The call block gets the type of its definition whenever the two differ.
MustChangeIgnoringOverride(block, initialTypes, actualReturnType, userCan) ==
  block.ret # actualReturnType

\* Lines 91-96: the call block gets the type of its definition.
MustChange(block, initialTypes, actualReturnType, userCan) ==
  /\ block.ret # actualReturnType
  /\ (~userCan \/ initialTypes[block.procCode] # actualReturnType)

\* Lines 57-102: the loop over the list getTopBlocks(false) returned.  acc
\* holds the workspace, the calls made so far, and whether one has thrown;
\* the throwAt-th call of changeReturnType throws at throwPoint.
RECURSIVE UpdateLooseBlocks(_, _, _, _, _, _, _)
UpdateLooseBlocks(blocks, i, acc, initialTypes, finalTypes, throwAt, throwPoint) ==
  IF i > Len(blocks) \/ acc.threw THEN acc
  ELSE LET id == blocks[i][1].id
           stack == acc.ws[TopIndex(acc.ws, id)]
           block == stack[1]
           actualReturnType == finalTypes[block.procCode]
       IN IF /\ IsEligible(stack, initialTypes, finalTypes)
             /\ MustChange(block, initialTypes, actualReturnType,
                           USER_CAN_CHANGE_CALL_TYPE)
          THEN LET n == Len(acc.calls) + 1
                   throws == IF n = throwAt THEN throwPoint ELSE ""
               IN UpdateLooseBlocks(blocks, i + 1,
                    [ws |-> changeReturnType(acc.ws, id, actualReturnType, throws),
                     calls |-> Append(acc.calls, id),
                     threw |-> throws # ""],
                    initialTypes, finalTypes, throwAt, throwPoint)
          ELSE UpdateLooseBlocks(blocks, i + 1, acc, initialTypes, finalTypes,
                                 throwAt, throwPoint)

\* A procCode is new, or has changed its type.
ToolboxOutdatedAlsoForNew(initialTypes, finalTypes) ==
  \E procCode \in DOMAIN finalTypes :
    procCode \notin DOMAIN initialTypes
    \/ initialTypes[procCode] # finalTypes[procCode]

\* Lines 107-118: a procCode of both snapshots has changed its type.
ToolboxOutdated(initialTypes, finalTypes) ==
  \E procCode \in DOMAIN finalTypes :
    /\ procCode \in DOMAIN initialTypes
    /\ initialTypes[procCode] # finalTypes[procCode]

\* The value of this.initialProcedureReturnTypes_ when no snapshot is held.
NoSnapshot == [isNull |-> TRUE, types |-> [c \in {} |-> PROCEDURES_CALL_TYPE_STATEMENT]]

\* The whole pass.  The host runs it after it has taken the snapshot.
processProcedureReturnsChanged_(throwAt, throwPoint) ==
  /\ ~initialProcedureReturnTypes_.isNull
  /\ LET initialTypes == initialProcedureReturnTypes_.types
         finalTypes == getAllProcedureReturnTypes(topBlocks)
         start == [ws |-> topBlocks, calls |-> <<>>, threw |-> FALSE]
         quiet == UpdateLooseBlocks(topBlocks, 1, start, initialTypes,
                                    finalTypes, 0, "")
         done == UpdateLooseBlocks(topBlocks, 1, start, initialTypes,
                                   finalTypes, throwAt, throwPoint)
         refresh == ~done.threw /\ ToolboxOutdated(initialTypes, finalTypes)
     IN /\ throwAt <= Len(quiet.calls)
        /\ (throwAt = 0) = (throwPoint = "")
        /\ topBlocks' = done.ws
        /\ initialProcedureReturnTypes_' = NoSnapshot
        /\ group' = done.threw
        /\ last' = [op |-> "processProcedureReturnsChanged_",
                    previous |-> last.op,
                    pre |-> topBlocks,
                    initialTypes |-> initialTypes,
                    finalTypes |-> finalTypes,
                    changed |-> done.calls,
                    threw |-> done.threw,
                    events |-> <<"setGroup(true)">>
                               \o [n \in 1..Len(done.calls) |-> "changeReturnType"]
                               \o (IF done.threw THEN <<>> ELSE <<"setGroup(false)">>)
                               \o (IF refresh THEN <<"refreshToolboxSelection_">>
                                   ELSE <<>>)]
        /\ UNCHANGED <<USER_CAN_CHANGE_CALL_TYPE, returnsSettings,
                       isFlyout, frame, calls>>

----------------------------------------------------------------------------
(* The workspaces of the model.  The k-th top block of the initial         *)
(* workspace has id 10 * k, and the blocks of its stack the ids after it.  *)

\* A statement of a definition's body: what it is, the procCode it calls,
\* the block in its value input, and whether the host lists its next block
\* before its value (getDescendants(false) follows childBlocks_, the order
\* in which the children were connected).
Statement(kind, procCode, value, nextFirst) ==
  [kind |-> kind, procCode |-> procCode, value |-> value, nextFirst |-> nextFirst]

ReturnStatements ==
  {Statement(PROCEDURES_RETURN_BLOCK_TYPE, "", v, FALSE) :
     v \in {"none", "round", "hex"}}

CallStatements ==
  {Statement(PROCEDURES_CALL_BLOCK_TYPE, c, "none", FALSE) : c \in ProcCodes}

OtherStatements == {Statement(OTHER_BLOCK_TYPE, "", "none", FALSE)}

\* The sequences of at most n elements of S.
SeqUpTo(S, n) == UNION {[1..m -> S] : m \in 0..n}

\* The blocks of a body from its j-th statement on, in the order the host
\* lists them.
RECURSIVE BodyBlocks(_, _, _, _, _)
BodyBlocks(base, body, j, parent, marker) ==
  IF j > Len(body) THEN <<>>
  ELSE LET s == body[j]
           id == base + 2 * j
           blk == Block(id, s.kind, s.procCode, PROCEDURES_CALL_TYPE_STATEMENT,
                        marker, FALSE, parent, "next")
           val == IF s.value = "none" THEN <<>>
                  ELSE <<Block(id + 1, OTHER_BLOCK_TYPE, "",
                               PROCEDURES_CALL_TYPE_STATEMENT, marker,
                               s.value = "hex", id, "input")>>
           rest == BodyBlocks(base, body, j + 1, id, marker)
       IN <<blk>> \o (IF s.nextFirst THEN rest \o val ELSE val \o rest)

\* A procedures_definition block, its prototype and its body.
DefinitionStack(base, procCode, marker, body) ==
  <<Block(base, PROCEDURES_DEFINITION_BLOCK_TYPE, "",
          PROCEDURES_CALL_TYPE_STATEMENT, marker, FALSE, 0, "top"),
    Block(base + 1, PROCEDURES_PROTOTYPE_BLOCK_TYPE, procCode,
          PROCEDURES_CALL_TYPE_STATEMENT, marker, FALSE, base, "custom_block")>>
  \o BodyBlocks(base, body, 1, base, marker)

\* A loose procedures_call block, with the statements below it.
CallStack(base, procCode, ret, marker, below) ==
  <<Block(base, PROCEDURES_CALL_BLOCK_TYPE, procCode, ret, marker,
          ret = PROCEDURES_CALL_TYPE_BOOLEAN, 0, "top")>>
  \o BodyBlocks(base, below, 1, base, marker)

\* A loose block of another type, with the statements below it, which may be
\* insertion markers (the preview of a block dragged into the stack).
OtherStack(base, below, marker) ==
  <<Block(base, OTHER_BLOCK_TYPE, "", PROCEDURES_CALL_TYPE_STATEMENT, FALSE,
          FALSE, 0, "top")>>
  \o BodyBlocks(base, below, 1, base, marker)

\* The top blocks of the workspaces a reconciliation pass is run on:
\* definitions of each return type, call blocks of each shape, alone, as an
\* insertion marker or with a block below, and other blocks.
ReconcileBodies ==
  {<<>>} \cup {<<s>> : s \in {t \in ReturnStatements : t.value # "none"}}

ReconcileStacks(base) ==
  {DefinitionStack(base, c, m, b) :
     c \in ProcCodes, m \in BOOLEAN, b \in ReconcileBodies}
  \cup {CallStack(base, c, r, m, <<>>) :
          c \in ProcCodes, r \in ReturnTypes, m \in BOOLEAN}
  \cup {CallStack(base, c, r, FALSE, <<s>>) :
          c \in ProcCodes, r \in ReturnTypes, s \in OtherStatements}
  \cup {OtherStack(base, <<>>, FALSE)}

\* The workspaces of at most n top blocks, the k-th drawn from stacks[k].
RECURSIVE Workspaces(_, _)
Workspaces(stacks, n) ==
  IF n = 0 THEN {<<>>}
  ELSE LET shorter == Workspaces(stacks, n - 1)
       IN shorter \cup
          {Append(ws, s) : ws \in {w \in shorter : Len(w) = n - 1},
                           s \in stacks[n]}

\* The snapshots the host may hold: a type for some of the procCodes.
Snapshots ==
  {[isNull |-> FALSE, types |-> t] :
     t \in UNION {[D -> ReturnTypes] : D \in SUBSET ProcCodes}}

NoOperation == [op |-> "none"]

\* No call of findLegalName is running.
Idle == [pc |-> "idle"]

InitReconcile ==
  /\ topBlocks \in Workspaces([k \in 1..MaxTop |-> ReconcileStacks(10 * k)], MaxTop)
  /\ initialProcedureReturnTypes_ \in Snapshots
  /\ USER_CAN_CHANGE_CALL_TYPE \in BOOLEAN
  /\ DEFAULT_ENABLE_RETURNS = FALSE
  /\ procedureReturnsEnabled = FALSE
  /\ group = FALSE
  /\ isFlyout = FALSE
  /\ frame = Idle
  /\ calls = 0
  /\ last = NoOperation

NextReconcile ==
  \E throwAt \in 0..MaxTop, throwPoint \in ThrowPoints \cup {""} :
    processProcedureReturnsChanged_(throwAt, throwPoint)

SpecReconcile == InitReconcile /\ [][NextReconcile]_vars

\* With no edit after a pass that ran to its end, the host takes as the
\* next snapshot the types that pass computed.
TakeSnapshotAgain ==
  /\ last.op = "processProcedureReturnsChanged_"
  /\ ~last.threw
  /\ initialProcedureReturnTypes_.isNull
  /\ initialProcedureReturnTypes_' = [isNull |-> FALSE, types |-> last.finalTypes]
  /\ UNCHANGED <<topBlocks, USER_CAN_CHANGE_CALL_TYPE, returnsSettings, group,
                 isFlyout, frame, calls, last>>

\* Passes that follow one another with no edit in between.
NextAgain ==
  \/ \E throwAt \in 0..MaxTop, throwPoint \in ThrowPoints \cup {""} :
       processProcedureReturnsChanged_(throwAt, throwPoint)
  \/ TakeSnapshotAgain

SpecAgain == InitReconcile /\ [][NextAgain]_vars

\* A loose procedures_call block with a call block, a reporter, in one of
\* its argument inputs.
CallStackWithArgument(base, procCode, ret, argument) ==
  <<Block(base, PROCEDURES_CALL_BLOCK_TYPE, procCode, ret, FALSE,
          ret = PROCEDURES_CALL_TYPE_BOOLEAN, 0, "top"),
    Block(base + 1, PROCEDURES_CALL_BLOCK_TYPE, argument,
          PROCEDURES_CALL_TYPE_REPORTER, FALSE, FALSE, base, "input")>>

\* The top blocks of the workspaces in which the pass meets call blocks it
\* must leave alone beside those it rewrites: call blocks inside a
\* definition, inside another stack, inside the argument of a loose call
\* block, insertion markers, and call blocks with a block below.
FrameStacks(base) ==
  {DefinitionStack(base, c, FALSE, b) :
     c \in ProcCodes,
     b \in {<<>>, <<Statement(PROCEDURES_RETURN_BLOCK_TYPE, "", "round", FALSE)>>}}
  \cup {CallStackWithArgument(base, c, PROCEDURES_CALL_TYPE_STATEMENT, c) :
          c \in ProcCodes}
  \cup {CallStack(base, c, r, m, <<>>) :
          c \in ProcCodes, m \in BOOLEAN,
          r \in {PROCEDURES_CALL_TYPE_STATEMENT, PROCEDURES_CALL_TYPE_REPORTER}}
  \cup {CallStack(base, c, PROCEDURES_CALL_TYPE_STATEMENT, FALSE, <<s>>) :
          c \in ProcCodes, s \in OtherStatements}
  \cup {OtherStack(base, <<s>>, m) : s \in CallStatements, m \in BOOLEAN}

InitFrame ==
  /\ topBlocks \in Workspaces([k \in 1..MaxTop |-> FrameStacks(10 * k)], MaxTop)
  /\ initialProcedureReturnTypes_ \in Snapshots
  /\ USER_CAN_CHANGE_CALL_TYPE \in BOOLEAN
  /\ DEFAULT_ENABLE_RETURNS = FALSE
  /\ procedureReturnsEnabled = FALSE
  /\ group = FALSE
  /\ isFlyout = FALSE
  /\ frame = Idle
  /\ calls = 0
  /\ last = NoOperation

SpecFrame == InitFrame /\ [][NextReconcile]_vars

----------------------------------------------------------------------------
(* Blockly.Procedures.getDefineBlock and getProcedureReturnType.           *)

\* The index of the first top-level definition of procCode, 0 for null.
RECURSIVE getDefineBlockLoop(_, _, _)
getDefineBlockLoop(procCode, blocks, i) ==
  IF i > Len(blocks) THEN 0
  ELSE IF /\ blocks[i][1].type = PROCEDURES_DEFINITION_BLOCK_TYPE
          /\ customBlock(blocks[i]).procCode = procCode
       THEN i
       ELSE getDefineBlockLoop(procCode, blocks, i + 1)

getDefineBlock(procCode, ws) == getDefineBlockLoop(procCode, ws, 1)

getProcedureReturnType(procCode, ws) ==
  LET defineBlock == getDefineBlock(procCode, ws)
  IN IF defineBlock = 0 THEN PROCEDURES_CALL_TYPE_STATEMENT
     ELSE getBlockReturnType(ws[defineBlock])

\* A caller asks for the return type of a procedure.
AskProcedureReturnType(procCode) ==
  /\ last' = [op |-> "getProcedureReturnType",
              procCode |-> procCode,
              defineBlock |-> getDefineBlock(procCode, topBlocks),
              ret |-> getProcedureReturnType(procCode, topBlocks)]
  /\ UNCHANGED <<topBlocks, initialProcedureReturnTypes_,
                 USER_CAN_CHANGE_CALL_TYPE, returnsSettings,
                 group, isFlyout, frame, calls>>

\* The bodies whose return type is asked for: return blocks with a round,
\* a hexagonal or no value, listed before or after the block below them,
\* calls and other statements.
TypedStatements ==
  ReturnStatements
  \cup {Statement(PROCEDURES_RETURN_BLOCK_TYPE, "", v, TRUE) :
          v \in {"round", "hex"}}
  \cup CallStatements \cup OtherStatements

TypedStacks(base) ==
  {DefinitionStack(base, "p", m, b) :
     m \in BOOLEAN, b \in SeqUpTo(TypedStatements, MaxBody)}

InitReturnType ==
  /\ topBlocks \in {<<s>> : s \in TypedStacks(10)}
  /\ initialProcedureReturnTypes_ = NoSnapshot
  /\ USER_CAN_CHANGE_CALL_TYPE = TRUE
  /\ DEFAULT_ENABLE_RETURNS = FALSE
  /\ procedureReturnsEnabled = FALSE
  /\ group = FALSE
  /\ isFlyout = FALSE
  /\ frame = Idle
  /\ calls = 0
  /\ last = NoOperation

NextReturnType == \E procCode \in ProcCodes : AskProcedureReturnType(procCode)

SpecReturnType == InitReturnType /\ [][NextReturnType]_vars

\* A caller asks for the return types of all procedures (lines 767-783).
AskAllProcedureReturnTypes ==
  /\ last' = [op |-> "getAllProcedureReturnTypes",
              ret |-> getAllProcedureReturnTypes(topBlocks)]
  /\ UNCHANGED <<topBlocks, initialProcedureReturnTypes_,
                 USER_CAN_CHANGE_CALL_TYPE, returnsSettings,
                 group, isFlyout, frame, calls>>

\* The statements of the bodies that are compared: return blocks with a
\* round, a hexagonal or no value, and other statements with or without a
\* hexagonal block in an input (a condition), each listed by the host with
\* its input before or after the block below it.
ShapeStatements ==
  TypedStatements
  \cup {Statement(OTHER_BLOCK_TYPE, "", "hex", f) : f \in BOOLEAN}

\* Two definitions, of p and of q.
InitShape ==
  /\ topBlocks \in {<<DefinitionStack(10, "p", FALSE, b1),
                      DefinitionStack(20, "q", FALSE, b2)>> :
                      b1, b2 \in SeqUpTo(ShapeStatements, MaxBody)}
  /\ initialProcedureReturnTypes_ = NoSnapshot
  /\ USER_CAN_CHANGE_CALL_TYPE = TRUE
  /\ DEFAULT_ENABLE_RETURNS = FALSE
  /\ procedureReturnsEnabled = FALSE
  /\ group = FALSE
  /\ isFlyout = FALSE
  /\ frame = Idle
  /\ calls = 0
  /\ last = NoOperation

NextShape ==
  \/ AskAllProcedureReturnTypes
  \/ \E procCode \in ProcCodes : AskProcedureReturnType(procCode)

SpecShape == InitShape /\ [][NextShape]_vars

\* The definitions of a workspace whose procedures are asked for one by one
\* and all at once: of each return type, several of one procCode and
\* insertion markers among them.
DefinitionStacks(base) ==
  {DefinitionStack(base, c, m, b) :
     c \in ProcCodes, m \in BOOLEAN, b \in ReconcileBodies}

InitDefinitions ==
  /\ topBlocks \in Workspaces([k \in 1..MaxTop |-> DefinitionStacks(10 * k)],
                               MaxTop)
  /\ initialProcedureReturnTypes_ = NoSnapshot
  /\ USER_CAN_CHANGE_CALL_TYPE = TRUE
  /\ DEFAULT_ENABLE_RETURNS = FALSE
  /\ procedureReturnsEnabled = FALSE
  /\ group = FALSE
  /\ isFlyout = FALSE
  /\ frame = Idle
  /\ calls = 0
  /\ last = NoOperation

SpecDefinitions == InitDefinitions /\ [][NextShape]_vars

----------------------------------------------------------------------------
(* Blockly.Procedures.getCallers and deleteProcedureDefCallback.           *)

\* The blocks of the stacks from the i-th on that the search looks into:
\* block.getDescendants(false) of every top block, but for the stack of
\* definitionRoot when allowRecursive is false.
RECURSIVE StacksToInvestigate(_, _, _, _)
StacksToInvestigate(topBlockList, i, definitionRoot, allowRecursive) ==
  IF i > Len(topBlockList) THEN <<>>
  ELSE (IF topBlockList[i][1].id = definitionRoot /\ ~allowRecursive
        THEN <<>>
        ELSE topBlockList[i])
       \o StacksToInvestigate(topBlockList, i + 1, definitionRoot, allowRecursive)

\* Lines 360-364: the block is a caller of name.
IsCaller(block, name) ==
  /\ block.type = PROCEDURES_CALL_BLOCK_TYPE
  /\ block.procCode # "" /\ block.procCode = name

getCallers(name, ws, definitionRoot, allowRecursive) ==
  SelectSeq(StacksToInvestigate(ws, 1, definitionRoot, allowRecursive),
            LAMBDA block : IsCaller(block, name))

\* A caller asks for the callers of a procedure.  definitionRoot is the id
\* of a top block.
AskCallers(name, definitionRoot, allowRecursive) ==
  /\ TopIndex(topBlocks, definitionRoot) # 0
  /\ last' = [op |-> "getCallers",
              name |-> name,
              definitionRoot |-> definitionRoot,
              allowRecursive |-> allowRecursive,
              ret |-> getCallers(name, topBlocks, definitionRoot, allowRecursive)]
  /\ UNCHANGED <<topBlocks, initialProcedureReturnTypes_,
                 USER_CAN_CHANGE_CALL_TYPE, returnsSettings,
                 group, isFlyout, frame, calls>>

\* A definition with a single caller may be deleted.
RefusesOnlySeveralCallers(callers) == Len(callers) > 1

\* Line 708: the definition still has callers.
RefusesDeletion(callers) == Len(callers) > 0

\* deleteProcedureDefCallback(procCode, definitionRoot), definitionRoot the
\* top-level definition block of procCode with this id.  throws says that
\* definitionRoot.dispose() throws.
deleteProcedureDefCallback(procCode, definitionRoot, throws) ==
  LET k == TopIndex(topBlocks, definitionRoot)
      callers == getCallers(procCode, topBlocks, definitionRoot, FALSE)
  IN /\ k # 0
     /\ topBlocks[k][1].type = PROCEDURES_DEFINITION_BLOCK_TYPE
     /\ customBlock(topBlocks[k]).procCode = procCode
     /\ IF RefusesDeletion(callers)
        THEN /\ ~throws
             /\ last' = [op |-> "deleteProcedureDefCallback",
                         pre |-> topBlocks, preGroup |-> group,
                         procCode |-> procCode,
                         definitionRoot |-> definitionRoot,
                         callers |-> callers, threw |-> FALSE,
                         events |-> <<>>, ret |-> FALSE]
             /\ UNCHANGED <<topBlocks, group>>
        ELSE /\ topBlocks' = IF throws THEN topBlocks ELSE RemoveAt(topBlocks, k)
             /\ group' = throws
             /\ last' = [op |-> "deleteProcedureDefCallback",
                         pre |-> topBlocks, preGroup |-> group,
                         procCode |-> procCode,
                         definitionRoot |-> definitionRoot,
                         callers |-> callers, threw |-> throws,
                         events |-> IF throws THEN <<"setGroup(true)">>
                                    ELSE <<"setGroup(true)", "dispose",
                                           "setGroup(false)",
                                           "refreshToolboxSelection_">>,
                         ret |-> ~throws]
     /\ UNCHANGED <<initialProcedureReturnTypes_, USER_CAN_CHANGE_CALL_TYPE, returnsSettings,
                    isFlyout, frame, calls>>

\* Lines 596-619: the type the menu option gives the call block.
NewCallType(block, ws) ==
  IF block.ret = PROCEDURES_CALL_TYPE_STATEMENT
  THEN IF getProcedureReturnType(block.procCode, ws) = PROCEDURES_CALL_TYPE_BOOLEAN
       THEN PROCEDURES_CALL_TYPE_BOOLEAN
       ELSE PROCEDURES_CALL_TYPE_REPORTER
  ELSE PROCEDURES_CALL_TYPE_STATEMENT

\* Lines 595-646: the menu option made by makeChangeTypeOption for the
\* top-level call block with this id is chosen.  throws is "" or the place
\* where changeReturnType throws; the finally clause closes the group.
changeTypeCallback(id, throws) ==
  LET k == TopIndex(topBlocks, id)
  IN /\ k # 0
     /\ topBlocks[k][1].type = PROCEDURES_CALL_BLOCK_TYPE
     /\ ~topBlocks[k][1].marker
     /\ LET newType == NewCallType(topBlocks[k][1], topBlocks)
        IN /\ topBlocks' = changeReturnType(topBlocks, id, newType, throws)
           /\ last' = [op |-> "changeTypeCallback",
                       pre |-> topBlocks, preGroup |-> group,
                       block |-> id, newType |-> newType,
                       threw |-> throws # "",
                       events |-> <<"setGroup(true)", "changeReturnType",
                                    "setGroup(false)">>,
                       ret |-> FALSE]
     /\ group' = FALSE
     /\ UNCHANGED <<initialProcedureReturnTypes_, USER_CAN_CHANGE_CALL_TYPE, returnsSettings,
                    isFlyout, frame, calls>>

\* Lines 437-443; 0 when there is no definition.
getPrototypeBlock(procCode, ws) ==
  IF getDefineBlock(procCode, ws) = 0 THEN 0
  ELSE customBlock(ws[getDefineBlock(procCode, ws)]).id

\* The blocks of the stacks of a workspace from the i-th on.
RECURSIVE getAllBlocksOf(_, _)
getAllBlocksOf(ws, i) ==
  IF i > Len(ws) THEN <<>> ELSE ws[i] \o getAllBlocksOf(ws, i + 1)

\* block.mutationToDom() of a prototype or a call: its procCode and return
\* attribute.
mutationToDom(block) == [procCode |-> block.procCode, ret |-> block.ret]

\* The new mutation is given to the caller as it comes, 'return' attribute
\* included.
mutationToReplaceWithAsGiven(caller, mutation) == mutation

\* Lines 392-393: a copy of the new mutation on which the 'return'
\* attribute of the block is put back.
mutationToReplaceWith(caller, mutation) ==
  [mutation EXCEPT !.ret = mutationToDom(caller).ret]

\* block.domToMutation: the block takes the procCode and the return type of
\* the mutation, and a call block the shape of that type.
domToMutation(block, mutation) ==
  [block EXCEPT !.procCode = mutation.procCode,
                !.ret = mutation.ret,
                !.hex = IF block.type = PROCEDURES_CALL_BLOCK_TYPE
                        THEN mutation.ret = PROCEDURES_CALL_TYPE_BOOLEAN
                        ELSE block.hex]

\* The block of this id.
BlockOfId(ws, id) ==
  LET blocks == getAllBlocksOf(ws, 1)
  IN blocks[CHOOSE i \in 1..Len(blocks) : blocks[i].id = id]

\* Lines 396-401: a BlockChange event is fired for each of the first
\* callers whose mutation is not what it was.
BlockChanges(callers, reached, mutation) ==
  LET changed(n) ==
        LET caller == BlockOfId(topBlocks, callers[n])
        IN mutationToDom(domToMutation(caller,
                           mutationToReplaceWith(caller, mutation)))
             # mutationToDom(caller)
  IN [n \in 1..Cardinality({m \in 1..reached : changed(m)}) |-> "BlockChange"]

\* Lines 377-407.  throwAt = 0: nothing throws; throwAt = n: domToMutation
\* of the n-th caller throws.
mutateCallersAndPrototype(name, mutation, throwAt) ==
  LET defineBlock == getDefineBlock(name, topBlocks)
      prototypeBlock == getPrototypeBlock(name, topBlocks)
      found == getCallers(name, topBlocks, topBlocks[defineBlock][1].id, TRUE)
      callers == [n \in 1..Len(found) |-> found[n].id] \o <<prototypeBlock>>
      reached == IF throwAt = 0 THEN Len(callers) ELSE throwAt - 1
      mutated == {callers[n] : n \in 1..reached}
  IN IF defineBlock # 0 /\ prototypeBlock # 0
     THEN /\ throwAt <= Len(callers)
          /\ topBlocks' =
               [k \in 1..Len(topBlocks) |->
                  [i \in 1..Len(topBlocks[k]) |->
                     IF topBlocks[k][i].id \in mutated
                     THEN domToMutation(topBlocks[k][i],
                            mutationToReplaceWith(topBlocks[k][i], mutation))
                     ELSE topBlocks[k][i]]]
          /\ group' = (throwAt # 0)
          /\ last' = [op |-> "mutateCallersAndPrototype",
                      pre |-> topBlocks, preGroup |-> group,
                      name |-> name, mutation |-> mutation,
                      callers |-> callers, threw |-> throwAt # 0,
                      events |-> <<"setGroup(true)">>
                                 \o BlockChanges(callers, reached, mutation)
                                 \o IF throwAt = 0 THEN <<"setGroup(false)">>
                                    ELSE <<>>,
                      ret |-> FALSE]
          /\ UNCHANGED <<initialProcedureReturnTypes_,
                         USER_CAN_CHANGE_CALL_TYPE, returnsSettings,
                         isFlyout, frame, calls>>
     ELSE /\ throwAt = 0
          /\ last' = [op |-> "mutateCallersAndPrototype",
                      pre |-> topBlocks, preGroup |-> group,
                      name |-> name, mutation |-> mutation,
                      callers |-> <<>>, threw |-> FALSE,
                      events |-> <<"alert">>, ret |-> FALSE]
          /\ UNCHANGED <<topBlocks, initialProcedureReturnTypes_,
                         USER_CAN_CHANGE_CALL_TYPE, returnsSettings,
                         group, isFlyout, frame,
                         calls>>

\* The mutations a definition is edited to.
Mutations == {[procCode |-> c, ret |-> r] : c \in ProcCodes, r \in ReturnTypes}

\* The top blocks of the workspaces callers are looked for in: definitions
\* with or without a call in their body, loose calls, calls below another
\* block, and insertion markers of calls.
CallerStacks(base) ==
  {DefinitionStack(base, c, FALSE, b) :
     c \in ProcCodes, b \in {<<>>} \cup {<<t>> : t \in CallStatements}}
  \cup {CallStack(base, c, PROCEDURES_CALL_TYPE_STATEMENT, m, <<>>) :
          c \in ProcCodes, m \in BOOLEAN}
  \cup {OtherStack(base, <<t>>, m) : t \in CallStatements, m \in BOOLEAN}

\* The ids a top block of the model may have.
TopIds == {10 * k : k \in 1..(MaxTop + 1)}

InitCallers ==
  /\ topBlocks \in Workspaces([k \in 1..MaxTop |-> CallerStacks(10 * k)], MaxTop)
  /\ initialProcedureReturnTypes_ = NoSnapshot
  /\ USER_CAN_CHANGE_CALL_TYPE = TRUE
  /\ DEFAULT_ENABLE_RETURNS = FALSE
  /\ procedureReturnsEnabled = FALSE
  /\ group = FALSE
  /\ isFlyout = FALSE
  /\ frame = Idle
  /\ calls = 0
  /\ last = NoOperation

NextCallers ==
  \/ \E name \in ProcCodes, definitionRoot \in TopIds, allowRecursive \in BOOLEAN :
       AskCallers(name, definitionRoot, allowRecursive)
  \/ \E procCode \in ProcCodes, definitionRoot \in TopIds, throws \in BOOLEAN :
       deleteProcedureDefCallback(procCode, definitionRoot, throws)
  \/ \E id \in TopIds, throws \in ThrowPoints \cup {""} :
       changeTypeCallback(id, throws)
  \/ \E name \in ProcCodes, mutation \in Mutations, throwAt \in 0..(2 * MaxTop) :
       mutateCallersAndPrototype(name, mutation, throwAt)

SpecCallers == InitCallers /\ [][NextCallers]_vars

\* Definitions are deleted, one after another, from the same workspaces.
NextDelete ==
  \E procCode \in ProcCodes, definitionRoot \in TopIds, throws \in BOOLEAN :
    deleteProcedureDefCallback(procCode, definitionRoot, throws)

SpecDelete == InitCallers /\ [][NextDelete]_vars

\* The top blocks of the workspaces a procedure is edited in: definitions
\* with or without a recursive call in their body, loose calls of each
\* return type, and insertion markers of calls.
MutateStacks(base) ==
  {DefinitionStack(base, c, FALSE, <<>>) : c \in ProcCodes}
  \cup {DefinitionStack(base, c, FALSE,
                        <<Statement(PROCEDURES_CALL_BLOCK_TYPE, c, "none", FALSE)>>) :
          c \in ProcCodes}
  \cup {CallStack(base, c, r, FALSE, <<>>) : c \in ProcCodes, r \in ReturnTypes}
  \cup {CallStack(base, c, PROCEDURES_CALL_TYPE_STATEMENT, TRUE, <<>>) :
          c \in ProcCodes}

InitMutate ==
  /\ topBlocks \in Workspaces([k \in 1..MaxTop |-> MutateStacks(10 * k)], MaxTop)
  /\ initialProcedureReturnTypes_ = NoSnapshot
  /\ USER_CAN_CHANGE_CALL_TYPE = TRUE
  /\ DEFAULT_ENABLE_RETURNS = FALSE
  /\ procedureReturnsEnabled = FALSE
  /\ group = FALSE
  /\ isFlyout = FALSE
  /\ frame = Idle
  /\ calls = 0
  /\ last = NoOperation

\* Procedures are edited, one after another, and every edit runs to its
\* end.
NextMutate ==
  \E name \in ProcCodes, mutation \in Mutations :
    mutateCallersAndPrototype(name, mutation, 0)

SpecMutate == InitMutate /\ [][NextMutate]_vars

----------------------------------------------------------------------------
(* Names.  A name is the sequence of its characters.                       *)

DigitChars == <<"0", "1", "2", "3", "4", "5", "6", "7", "8", "9">>

IsDigit(c) == \E i \in 1..Len(DigitChars) : DigitChars[i] = c

DigitValue(c) == (CHOOSE i \in 1..Len(DigitChars) : DigitChars[i] = c) - 1

\* parseInt(digits, 10) of a run of digits.
RECURSIVE parseInt(_)
parseInt(digits) ==
  IF Len(digits) = 0 THEN 0
  ELSE 10 * parseInt(SubSeq(digits, 1, Len(digits) - 1))
       + DigitValue(digits[Len(digits)])

\* The decimal digits of a number, as string concatenation writes them.
RECURSIVE toString(_)
toString(n) ==
  IF n < 10 THEN <<DigitChars[n + 1]>>
  ELSE toString(n \div 10) \o <<DigitChars[(n % 10) + 1]>>

\* The length of r[2] in name.match(/^(.*?)(\d+)$/): the digits the name
\* ends in, 0 when the match is null.
RECURSIVE TrailingDigits(_)
TrailingDigits(name) ==
  IF Len(name) = 0 \/ ~IsDigit(name[Len(name)]) THEN 0
  ELSE 1 + TrailingDigits(SubSeq(name, 1, Len(name) - 1))

\* Lines 142-147: the name the loop of findLegalName tries next.
NextName(name) ==
  LET d == TrailingDigits(name)
  IN IF d = 0 THEN name \o <<"2">>
     ELSE SubSeq(name, 1, Len(name) - d)
          \o toString(parseInt(SubSeq(name, Len(name) - d + 1, Len(name))) + 1)

WhiteSpace == {" "}

\* Line 199: name.replace(/^[\s\xa0]+|[\s\xa0]+$/g, '').
RECURSIVE Strip(_)
Strip(name) ==
  IF Len(name) = 0 THEN name
  ELSE IF name[1] \in WhiteSpace THEN Strip(Tail(name))
  ELSE IF name[Len(name)] \in WhiteSpace
       THEN Strip(SubSeq(name, 1, Len(name) - 1))
  ELSE name

toLowerCase(name) ==
  [i \in 1..Len(name) |-> IF name[i] = "A" THEN "a" ELSE name[i]]

\* Blockly.Names.equals: the names are equal but for case.
NamesEquals(name1, name2) == toLowerCase(name1) = toLowerCase(name2)

\* workspace.getAllBlocks(): the blocks of every stack.
RECURSIVE getAllBlocksFrom(_, _)
getAllBlocksFrom(ws, i) ==
  IF i > Len(ws) THEN <<>> ELSE ws[i] \o getAllBlocksFrom(ws, i + 1)

getAllBlocks(ws) == getAllBlocksFrom(ws, 1)

\* blocks[i].getProcedureDef is defined: the block defines a procedure, and
\* getProcedureDef()[0] is its name, held in the field procCode.
hasGetProcedureDef(block) == block.type = PROCEDURES_DEFINITION_BLOCK_TYPE

\* blocks[i].renameProcedure is defined: the block calls a procedure.
hasRenameProcedure(block) == block.type = PROCEDURES_CALL_BLOCK_TYPE

\* Lines 174-189: isNameUsed, which returns false at the first definition
\* other than opt_exclude that carries the name, and true after the loop.
RECURSIVE isNameUsedLoop(_, _, _, _)
isNameUsedLoop(name, blocks, i, opt_exclude) ==
  IF i > Len(blocks) THEN TRUE
  ELSE IF blocks[i].id = opt_exclude
       THEN isNameUsedLoop(name, blocks, i + 1, opt_exclude)
  ELSE IF hasGetProcedureDef(blocks[i]) /\ NamesEquals(blocks[i].procCode, name)
       THEN FALSE
  ELSE isNameUsedLoop(name, blocks, i + 1, opt_exclude)

isNameUsed(name, ws, opt_exclude) ==
  isNameUsedLoop(name, getAllBlocks(ws), 1, opt_exclude)

isLegalName_(name, ws, opt_exclude) == ~isNameUsed(name, ws, opt_exclude)

\* block.renameProcedure(oldName, newName) of a caller: it takes the new
\* name when it calls the procedure of the old name.
renameProcedure(block, oldName, newName) ==
  IF NamesEquals(oldName, block.procCode)
  THEN [block EXCEPT !.procCode = newName]
  ELSE block

\* The field of the definition takes the accepted name as its text.
setText(block, id, text) ==
  IF block.id = id THEN [block EXCEPT !.procCode = text] ELSE block

\* The definition block with this id is in the workspace.
IsDefinition(ws, id) ==
  /\ TopIndex(ws, id) # 0
  /\ ws[TopIndex(ws, id)][1].type = PROCEDURES_DEFINITION_BLOCK_TYPE

\* The id of a block that is about to be created.
NewBlockId == 10 * (MaxNamed + 1)

\* The digits a name ends in, and the name without them: r[2] and r[1].
Digits(name) == SubSeq(name, Len(name) - TrailingDigits(name) + 1, Len(name))

Prefix(name) == SubSeq(name, 1, Len(name) - TrailingDigits(name))

\* Some name the loop of findLegalName tries, from this name on, equals the
\* name d but for case: the name itself, or its prefix followed by a number
\* that is written without leading zeros and that the loop has yet to try.
Reaches(name, d) ==
  \/ NamesEquals(name, d)
  \/ /\ TrailingDigits(d) > 0
     /\ NamesEquals(Prefix(name), Prefix(d))
     /\ toString(parseInt(Digits(d))) = Digits(d)
     /\ parseInt(Digits(d)) >= (IF TrailingDigits(name) = 0 THEN 2
                                ELSE parseInt(Digits(name)) + 1)

\* No name the loop tries from this name on is the name of a definition:
\* isNameUsed gives every one of them the same answer.
OutOfReach(name, ws) ==
  \A i \in 1..Len(getAllBlocks(ws)) :
    hasGetProcedureDef(getAllBlocks(ws)[i])
      => ~Reaches(name, getAllBlocks(ws)[i].procCode)

\* Lines 135-139: findLegalName is entered, for the block with this id.
EnterFindLegalName(caller, name, proposed, block) ==
  frame' = [pc |-> IF isFlyout THEN "return" ELSE "while",
            caller |-> caller, proposed |-> proposed, block |-> block,
            name |-> name, iter |-> 0]

\* Lines 140-148: one test of the loop's condition, and one round of it.
\* iter is the number of rounds made, modulo 2.  A name that is out of
\* reach stands for the names that follow it: the test answers the same for
\* all of them, and the loop goes round with each.
findLegalNameStep ==
  /\ frame.pc = "while"
  /\ IF isLegalName_(frame.name, topBlocks, frame.block)
     THEN frame' = [frame EXCEPT !.pc = "return"]
     ELSE frame' = [frame EXCEPT !.name = IF OutOfReach(frame.name, topBlocks)
                                         THEN frame.name
                                         ELSE NextName(frame.name),
                                 !.iter = 1 - frame.iter]
  /\ UNCHANGED <<topBlocks, initialProcedureReturnTypes_,
                 USER_CAN_CHANGE_CALL_TYPE, returnsSettings,
                 group, isFlyout, calls, last>>

\* findLegalName(name, block) is called for a definition of the workspace,
\* or for one about to be created.
findLegalNameCall(name, block) ==
  /\ frame.pc = "idle"
  /\ IsDefinition(topBlocks, block) \/ block = NewBlockId
  /\ EnterFindLegalName("findLegalName", name, name, block)
  /\ calls < MaxCalls
  /\ calls' = calls + 1
  /\ UNCHANGED <<topBlocks, initialProcedureReturnTypes_,
                 USER_CAN_CHANGE_CALL_TYPE, returnsSettings,
                 group, isFlyout, last>>

\* Line 149: it returns.
findLegalNameReturn ==
  /\ frame.pc = "return"
  /\ frame.caller = "findLegalName"
  /\ frame' = Idle
  /\ last' = [op |-> "findLegalName", pre |-> topBlocks,
              proposed |-> frame.proposed, block |-> frame.block,
              ret |-> frame.name]
  /\ UNCHANGED <<topBlocks, initialProcedureReturnTypes_,
                 USER_CAN_CHANGE_CALL_TYPE, returnsSettings,
                 group, isFlyout, calls>>

\* Lines 197-202: the name field of a definition calls rename with the text
\* the user typed.
renameCall(proposed, sourceBlock_) ==
  /\ frame.pc = "idle"
  /\ IsDefinition(topBlocks, sourceBlock_)
  /\ EnterFindLegalName("rename", Strip(proposed), proposed, sourceBlock_)
  /\ calls < MaxCalls
  /\ calls' = calls + 1
  /\ UNCHANGED <<topBlocks, initialProcedureReturnTypes_,
                 USER_CAN_CHANGE_CALL_TYPE, returnsSettings,
                 group, isFlyout, last>>

\* Line 204: the callers are renamed.
RenamesCallers(oldName, name, legalName) ==
  oldName # name /\ oldName # legalName

\* Lines 203-213: the callers are renamed, the accepted name is returned
\* and becomes the text of the field.
renameReturn ==
  /\ frame.pc = "return"
  /\ frame.caller = "rename"
  /\ LET legalName == frame.name
         oldName == topBlocks[TopIndex(topBlocks, frame.block)][1].procCode
         renames == RenamesCallers(oldName, Strip(frame.proposed), legalName)
         renamed ==
           [k \in 1..Len(topBlocks) |->
              [i \in 1..Len(topBlocks[k]) |->
                 IF renames /\ hasRenameProcedure(topBlocks[k][i])
                 THEN renameProcedure(topBlocks[k][i], oldName, legalName)
                 ELSE topBlocks[k][i]]]
     IN /\ topBlocks' =
             [k \in 1..Len(renamed) |->
                [i \in 1..Len(renamed[k]) |->
                   setText(renamed[k][i], frame.block, legalName)]]
        /\ last' = [op |-> "rename", pre |-> topBlocks,
                    proposed |-> frame.proposed, block |-> frame.block,
                    oldName |-> oldName, ret |-> legalName,
                    events |-> IF renames
                               THEN SelectSeq(
                                      [i \in 1..Len(getAllBlocks(topBlocks)) |->
                                         IF hasRenameProcedure(getAllBlocks(topBlocks)[i])
                                         THEN "renameProcedure" ELSE ""],
                                      LAMBDA e : e # "")
                               ELSE <<>>]
  /\ frame' = Idle
  /\ UNCHANGED <<initialProcedureReturnTypes_, USER_CAN_CHANGE_CALL_TYPE, returnsSettings,
                 group, isFlyout, calls>>

\* Lines 482-508: the callback that creates the definition of a new
\* procedure from a mutation.  The name of the mutation is one that
\* findLegalName has returned for the new block.
createProcedureCallback(id) ==
  /\ frame.pc = "idle"
  /\ last.op = "findLegalName"
  /\ last.block = id
  /\ TopIndex(topBlocks, id) = 0
  /\ topBlocks' = Append(topBlocks,
                    <<Block(id, PROCEDURES_DEFINITION_BLOCK_TYPE, last.ret,
                            PROCEDURES_CALL_TYPE_STATEMENT, FALSE, FALSE, 0, "top")>>)
  /\ group' = FALSE
  /\ last' = [op |-> "createProcedureCallback", pre |-> topBlocks,
              block |-> id,
              events |-> <<"setGroup(true)", "domToBlock", "setGroup(false)">>]
  /\ UNCHANGED <<initialProcedureReturnTypes_, USER_CAN_CHANGE_CALL_TYPE, returnsSettings,
                 isFlyout, frame, calls>>

\* The characters of the names of the model.
Alphabet == {"a", "A", "2", " "}

\* The names a user may type.
ProposedNames == SeqUpTo(Alphabet, MaxNameLen)

\* The names the blocks of the initial workspace carry.
WorkspaceNames == SeqUpTo({"a", "2"}, MaxNameLen) \ {<<>>}

\* The ids a block of a workspace of named procedures may have.
NamedIds == {10 * k : k \in 1..MaxNamed} \cup {NewBlockId}

\* A workspace of named blocks: definitions, which carry their name, and
\* calls.
NamedStacks(base) ==
  {<<Block(base, PROCEDURES_DEFINITION_BLOCK_TYPE, n,
           PROCEDURES_CALL_TYPE_STATEMENT, FALSE, FALSE, 0, "top")>> :
     n \in WorkspaceNames}
  \cup {CallStack(base, n, PROCEDURES_CALL_TYPE_STATEMENT, FALSE, <<>>) :
          n \in WorkspaceNames}

\* The names of the definitions of a workspace, one for each definition.
DefinitionNames(ws) ==
  SelectSeq(getAllBlocks(ws), LAMBDA block : hasGetProcedureDef(block))

\* No two definitions carry the same name.
DistinctNames(ws) ==
  \A i, j \in 1..Len(DefinitionNames(ws)) :
    i # j => DefinitionNames(ws)[i].procCode # DefinitionNames(ws)[j].procCode

InitNames ==
  /\ topBlocks \in {ws \in Workspaces([k \in 1..MaxNamed |-> NamedStacks(10 * k)],
                                     MaxNamed) : DistinctNames(ws)}
  /\ initialProcedureReturnTypes_ = NoSnapshot
  /\ USER_CAN_CHANGE_CALL_TYPE = TRUE
  /\ DEFAULT_ENABLE_RETURNS = FALSE
  /\ procedureReturnsEnabled = FALSE
  /\ group = FALSE
  /\ isFlyout \in BOOLEAN
  /\ frame = Idle
  /\ calls = 0
  /\ last = NoOperation

NextNames ==
  \/ \E name \in ProposedNames, block \in NamedIds : findLegalNameCall(name, block)
  \/ findLegalNameStep
  \/ findLegalNameReturn
  \/ \E proposed \in ProposedNames, block \in NamedIds : renameCall(proposed, block)
  \/ renameReturn
  \/ \E id \in NamedIds : createProcedureCallback(id)

SpecNames == InitNames /\ [][NextNames]_vars

\* findLegalName alone, on the workspaces of at most MaxTop named blocks.
\* The loop is synchronous code: once entered it makes its next round or
\* returns, and nothing else runs in between.
InitTermination ==
  /\ topBlocks \in {ws \in Workspaces([k \in 1..MaxTop |-> NamedStacks(10 * k)],
                                     MaxTop) : DistinctNames(ws)}
  /\ initialProcedureReturnTypes_ = NoSnapshot
  /\ USER_CAN_CHANGE_CALL_TYPE = TRUE
  /\ DEFAULT_ENABLE_RETURNS = FALSE
  /\ procedureReturnsEnabled = FALSE
  /\ group = FALSE
  /\ isFlyout \in BOOLEAN
  /\ frame = Idle
  /\ calls = 0
  /\ last = NoOperation

NextTermination ==
  \/ \E name \in ProposedNames, block \in NamedIds : findLegalNameCall(name, block)
  \/ findLegalNameStep
  \/ findLegalNameReturn

SpecTermination ==
  /\ InitTermination
  /\ [][NextTermination]_vars
  /\ WF_vars(findLegalNameStep)
  /\ WF_vars(findLegalNameReturn)

----------------------------------------------------------------------------
(* Blockly.Procedures.flyoutCategory: the entries of the procedure         *)
(* category of the toolbox.                                                *)

\* An XML element of the list: a button with its callback key, or a block
\* with its type and, for a procedures_call block, the procCode and the
\* return attribute of its mutation.
Element(tag, type, callbackKey, procCode, ret) ==
  [tag |-> tag, type |-> type, callbackKey |-> callbackKey,
   procCode |-> procCode, ret |-> ret]

\* Lines 83-95: the mutations of the prototype blocks among all blocks.
RECURSIVE allProcedureMutationsLoop(_, _)
allProcedureMutationsLoop(blocks, i) ==
  IF i > Len(blocks) THEN <<>>
  ELSE IF blocks[i].type = PROCEDURES_PROTOTYPE_BLOCK_TYPE
       THEN <<mutationToDom(blocks[i])>>
            \o allProcedureMutationsLoop(blocks, i + 1)
       ELSE allProcedureMutationsLoop(blocks, i + 1)

allProcedureMutations(root) == allProcedureMutationsLoop(getAllBlocks(root), 1)

\* The place of a character in the order of the comparison, which ignores
\* case: the space, the digit, the letter.
CharRank(c) == CASE c = " " -> 0 [] c = "2" -> 1 [] OTHER -> 2

\* Blockly.scratchBlocksUtils.compareStrings: negative, zero or positive as
\* str1 sorts before, with or after str2, case ignored.
RECURSIVE compareStrings(_, _)
compareStrings(str1, str2) ==
  IF Len(str1) = 0 /\ Len(str2) = 0 THEN 0
  ELSE IF Len(str1) = 0 THEN -1
  ELSE IF Len(str2) = 0 THEN 1
  ELSE LET c1 == CharRank(toLowerCase(str1)[1])
           c2 == CharRank(toLowerCase(str2)[1])
       IN IF c1 < c2 THEN -1
          ELSE IF c1 > c2 THEN 1
          ELSE compareStrings(Tail(str1), Tail(str2))

\* Array.prototype.sort places a mutation behind those it does not sort
\* before (the sort is stable).
RECURSIVE SortInto(_, _)
SortInto(sorted, mutation) ==
  IF sorted = <<>> THEN <<mutation>>
  ELSE IF compareStrings(mutation.procCode, Head(sorted).procCode) < 0
       THEN <<mutation>> \o sorted
       ELSE <<Head(sorted)>> \o SortInto(Tail(sorted), mutation)

\* Lines 104-115: a sorted copy of the mutations.
RECURSIVE sortProcedureMutationsLoop(_, _, _)
sortProcedureMutationsLoop(mutations, i, newMutations) ==
  IF i > Len(mutations) THEN newMutations
  ELSE sortProcedureMutationsLoop(mutations, i + 1,
                                  SortInto(newMutations, mutations[i]))

sortProcedureMutations_(mutations) ==
  sortProcedureMutationsLoop(mutations, 1, <<>>)

CreateButton == Element("button", "", "CREATE_PROCEDURE", <<>>, "")

ReturnDocsButton == Element("button", "", "OPEN_RETURN_DOCS", <<>>, "")

ReturnBlock == Element("block", PROCEDURES_RETURN_BLOCK_TYPE, "", <<>>, "")

\* Lines 318-329: the "Make a Block..." button is pushed on the list.
addCreateButton_(xmlList) == Append(xmlList, CreateButton)

\* Lines 229-260: the procedures_call block of a mutation, whose return
\* attribute is set when the procedure returns a value.
CallTemplate(mutation, workspace) ==
  LET returnType == getProcedureReturnType(mutation.procCode, workspace)
  IN Element("block", PROCEDURES_CALL_BLOCK_TYPE, "", mutation.procCode,
             IF returnType # PROCEDURES_CALL_TYPE_STATEMENT
             THEN returnType ELSE mutation.ret)

\* Lines 262-266.
showReturn(mutations) ==
  IF DEFAULT_ENABLE_RETURNS THEN Len(mutations) > 0 ELSE procedureReturnsEnabled

\* The list is built from the mutations in the order they were found.
flyoutCategoryUnsorted(workspace) ==
  LET mutations == allProcedureMutations(workspace)
      xmlList == addCreateButton_(<<>>)
                   \o [i \in 1..Len(mutations) |->
                         CallTemplate(mutations[i], workspace)]
  IN IF showReturn(mutations)
     THEN <<ReturnDocsButton>> \o (<<ReturnBlock>> \o xmlList)
     ELSE xmlList

\* Lines 221-310: the create button and the call blocks are pushed, then the
\* return block and, before it, the docs button are put at the start.
flyoutCategory(workspace) ==
  LET mutations == sortProcedureMutations_(allProcedureMutations(workspace))
      xmlList == addCreateButton_(<<>>)
                   \o [i \in 1..Len(mutations) |->
                         CallTemplate(mutations[i], workspace)]
  IN IF showReturn(mutations)
     THEN <<ReturnDocsButton>> \o (<<ReturnBlock>> \o xmlList)
     ELSE xmlList

\* The toolbox asks for the entries of the category; addCreateButton_
\* registers the callback of the create button with the workspace.
AskFlyoutCategory ==
  /\ last' = [op |-> "flyoutCategory",
              registered |-> "CREATE_PROCEDURE",
              ret |-> flyoutCategory(topBlocks)]
  /\ UNCHANGED <<topBlocks, initialProcedureReturnTypes_,
                 USER_CAN_CHANGE_CALL_TYPE, returnsSettings, group, isFlyout,
                 frame, calls>>

\* The procCodes of the listed procedures: they differ in case, in length
\* and in their first character.
FlyoutNames == {<<"a">>, <<"A">>, <<"2">>, <<"a", "2">>}

\* Definitions of each return type, insertion markers among them.
FlyoutStacks(base) ==
  {DefinitionStack(base, n, m, b) :
     n \in FlyoutNames, m \in BOOLEAN, b \in ReconcileBodies}

InitFlyout ==
  /\ topBlocks \in Workspaces([k \in 1..MaxTop |-> FlyoutStacks(10 * k)], MaxTop)
  /\ initialProcedureReturnTypes_ = NoSnapshot
  /\ USER_CAN_CHANGE_CALL_TYPE = TRUE
  /\ DEFAULT_ENABLE_RETURNS \in BOOLEAN
  /\ procedureReturnsEnabled \in BOOLEAN
  /\ group = FALSE
  /\ isFlyout = FALSE
  /\ frame = Idle
  /\ calls = 0
  /\ last = NoOperation

NextFlyout == AskFlyoutCategory

SpecFlyout == InitFlyout /\ [][NextFlyout]_vars

----------------------------------------------------------------------------
(* The claims. *)

\* The pass that ran last ran to its end.
PassCompleted ==
  last.op = "processProcedureReturnsChanged_" /\ ~last.threw

\* The top block of this stack, as it is in the workspace now.
Now(stack) == topBlocks[TopIndex(topBlocks, stack[1].id)][1]

\* The call sites the claims on the pass speak of, in the workspace before
\* the pass: top-level procedures_call blocks, no insertion markers, nothing
\* below them, their procCode a key of both snapshots.
ClaimedCallSites ==
  {k \in 1..Len(last.pre) :
     /\ last.pre[k][1].type = "procedures_call"
     /\ ~last.pre[k][1].marker
     /\ ~\E i \in 1..Len(last.pre[k]) :
           last.pre[k][i].parent = last.pre[k][1].id /\ last.pre[k][i].att = "next"
     /\ last.pre[k][1].procCode \in DOMAIN last.initialTypes
     /\ last.pre[k][1].procCode \in DOMAIN last.finalTypes}

\* C1: after a completed pass, every such call site whose return type
\* differed from finalTypes[procCode] has the return type
\* finalTypes[procCode] if USER_CAN_CHANGE_CALL_TYPE is false or the type of
\* its procCode differs between the snapshots; and if
\* USER_CAN_CHANGE_CALL_TYPE is true and the two snapshots agree on its
\* procCode, it keeps the return type it had before the pass.
C1_CallSitesFollowDefinition ==
  PassCompleted =>
    \A k \in ClaimedCallSites :
      LET before == last.pre[k][1]
          initialType == last.initialTypes[before.procCode]
          finalType == last.finalTypes[before.procCode]
      IN /\ TopIndex(topBlocks, before.id) # 0
         /\ (before.ret # finalType
             /\ (~USER_CAN_CHANGE_CALL_TYPE \/ initialType # finalType))
            => Now(last.pre[k]).ret = finalType
         /\ (USER_CAN_CHANGE_CALL_TYPE /\ initialType = finalType)
            => Now(last.pre[k]).ret = before.ret

\* A pass with the override allowed has rewritten a call site whose
\* definition changed its type.
C1_Witness ==
  /\ PassCompleted
  /\ USER_CAN_CHANGE_CALL_TYPE
  /\ \E k \in ClaimedCallSites :
       /\ last.pre[k][1].ret # last.finalTypes[last.pre[k][1].procCode]
       /\ last.initialTypes[last.pre[k][1].procCode]
            # last.finalTypes[last.pre[k][1].procCode]
       /\ Now(last.pre[k]).ret = last.finalTypes[last.pre[k][1].procCode]

\* C2: a completed pass requests a toolbox refresh if and only if some
\* procCode that is a key of both snapshots has a different type in the
\* two; procCodes added to or removed from the workspace request none.
C2_RefreshIffCommonTypeChanged ==
  PassCompleted =>
    (("refreshToolboxSelection_" \in {last.events[n] : n \in 1..Len(last.events)})
     <=> \E c \in DOMAIN last.initialTypes \cap DOMAIN last.finalTypes :
           last.initialTypes[c] # last.finalTypes[c])

\* A pass has seen a procCode added and one removed, none changed, and has
\* requested no refresh.
C2_Witness ==
  /\ PassCompleted
  /\ DOMAIN last.finalTypes \ DOMAIN last.initialTypes # {}
  /\ DOMAIN last.initialTypes \ DOMAIN last.finalTypes # {}
  /\ "refreshToolboxSelection_" \notin {last.events[n] : n \in 1..Len(last.events)}

\* The list of descendants of the definition whose type was asked for.
AskedDescendants == topBlocks[last.defineBlock]

\* The positions of the return blocks in a list of descendants.
ReturnPositions(d) == {i \in 1..Len(d) : d[i].type = "procedures_return"}

\* The return block at position i is immediately followed by a hexagonal
\* block.
BooleanReturn(d, i) == i < Len(d) /\ d[i + 1].hex

\* C3: getBlockReturnType returns STATEMENT iff the list of the
\* definition's descendants holds no return block, BOOLEAN iff it holds a
\* return block and every return block is immediately followed by a
\* hexagonal block, and REPORTER iff some return block is not immediately
\* followed by a hexagonal block.
C3_ReturnTypeOfList ==
  (last.op = "getProcedureReturnType" /\ last.defineBlock # 0) =>
    LET d == AskedDescendants
    IN /\ (last.ret = "statement") <=> (ReturnPositions(d) = {})
       /\ (last.ret = "boolean")
            <=> /\ ReturnPositions(d) # {}
                /\ \A i \in ReturnPositions(d) : BooleanReturn(d, i)
       /\ (last.ret = "reporter")
            <=> \E i \in ReturnPositions(d) : ~BooleanReturn(d, i)

\* A definition with a boolean return before a return that is not boolean
\* has been classified.
C3_Witness ==
  /\ last.op = "getProcedureReturnType"
  /\ last.defineBlock # 0
  /\ last.ret = "reporter"
  /\ \E i, j \in ReturnPositions(AskedDescendants) :
       i < j /\ BooleanReturn(AskedDescendants, i)
       /\ ~BooleanReturn(AskedDescendants, j)

\* The deletion that ran last returned.
DeletionReturned ==
  last.op = "deleteProcedureDefCallback" /\ ~last.threw

\* C4: deleteProcedureDefCallback returns false and changes nothing (no
\* block disposed of, no event group opened, no toolbox refresh) when
\* getCallers(procCode, ws, definitionRoot, false) is not empty; otherwise
\* it disposes of the whole definition stack, requests a toolbox refresh
\* and returns true.
C4_DeleteRefusedIffCallers ==
  DeletionReturned =>
    IF Len(getCallers(last.procCode, last.pre, last.definitionRoot, FALSE)) > 0
    THEN /\ last.ret = FALSE
         /\ topBlocks = last.pre
         /\ group = last.preGroup
         /\ last.events = <<>>
    ELSE /\ last.ret = TRUE
         /\ \A k \in 1..Len(topBlocks) : \A i \in 1..Len(topBlocks[k]) :
              topBlocks[k][i].id
                \notin {last.pre[TopIndex(last.pre, last.definitionRoot)][j].id :
                          j \in 1..Len(last.pre[TopIndex(last.pre, last.definitionRoot)])}
         /\ Len(topBlocks) = Len(last.pre) - 1
         /\ "refreshToolboxSelection_" \in {last.events[n] : n \in 1..Len(last.events)}

\* A definition that calls itself, and that nothing else calls, has been
\* deleted from a full workspace.
C4_Witness ==
  /\ DeletionReturned
  /\ last.ret = TRUE
  /\ Len(getCallers(last.procCode, last.pre, last.definitionRoot, TRUE)) > 0
  /\ Len(last.pre) = MaxTop

\* The definitions other than the block with this id, among these blocks.
OtherDefinitions(blocks, id) ==
  {i \in 1..Len(blocks) :
     blocks[i].type = "procedures_definition" /\ blocks[i].id # id}

\* Some definition other than the block with this id carries the name, but
\* for case.
CarriedByAnother(name, ws, id) ==
  \E i \in OtherDefinitions(getAllBlocks(ws), id) :
    toLowerCase(getAllBlocks(ws)[i].procCode) = toLowerCase(name)

\* C5: outside a flyout, findLegalName(name, block) returns a name that no
\* definition other than block carries, compared without case, and returns
\* the proposed name unchanged when no other definition carries it.
C5_LegalNameIsFree ==
  (last.op = "findLegalName" /\ ~isFlyout) =>
    /\ ~CarriedByAnother(last.ret, last.pre, last.block)
    /\ ~CarriedByAnother(last.proposed, last.pre, last.block)
         => last.ret = last.proposed

\* C6: on a workspace that is no flyout, after any creations and renames
\* whose names went through findLegalName, no two definitions carry the
\* same name.
C6_DefinitionNamesDistinct ==
  ~isFlyout => DistinctNames(topBlocks)

\* C7: when rename returns an accepted name that differs from the old name
\* of the field, renameProcedure(oldName, acceptedName) has been applied to
\* every block that supports it, and no caller references the old name.
C7_RenameReachesEveryCaller ==
  (last.op = "rename" /\ last.ret # last.oldName) =>
    \A k \in 1..Len(last.pre) : \A i \in 1..Len(last.pre[k]) :
      last.pre[k][i].type = "procedures_call" =>
        /\ topBlocks[k][i]
             = renameProcedure(last.pre[k][i], last.oldName, last.ret)
        /\ topBlocks[k][i].procCode # last.oldName

\* The positions of an event in the events of the last operation.
EventPositions(e) == {n \in 1..Len(last.events) : last.events[n] = e}

\* C8: a rename that renames callers, and a deletion that succeeds, open
\* exactly one event group and close it, and every mutation of a block lies
\* between the opening and the closing.
C8_OneGroupAroundMutations ==
  (\/ last.op = "rename" /\ EventPositions("renameProcedure") # {}
   \/ last.op = "deleteProcedureDefCallback" /\ ~last.threw /\ last.ret = TRUE) =>
    /\ Cardinality(EventPositions("setGroup(true)")) = 1
    /\ Cardinality(EventPositions("setGroup(false)")) = 1
    /\ \A n \in EventPositions("renameProcedure") \cup EventPositions("dispose") :
         /\ \A o \in EventPositions("setGroup(true)") : o < n
         /\ \A c \in EventPositions("setGroup(false)") : n < c

\* C9: an operation that opens an event group around mutations of blocks
\* closes it before control leaves it, also when a mutation throws.
C9_GroupClosedOnExit ==
  last.op \in {"processProcedureReturnsChanged_", "deleteProcedureDefCallback",
               "changeTypeCallback", "mutateCallersAndPrototype"}
    => ~group

\* C10: getCallers returns exactly the procedures_call blocks of procCode
\* name that are no insertion markers and lie in a top-level stack, the
\* stack of definitionRoot searched only when allowRecursive is true.
C10_CallersAreTheCallsThatAreNoMarkers ==
  last.op = "getCallers" =>
    /\ {last.ret[n].id : n \in 1..Len(last.ret)}
         = UNION {{topBlocks[k][i].id : i \in
                     {j \in 1..Len(topBlocks[k]) :
                        /\ topBlocks[k][j].type = "procedures_call"
                        /\ topBlocks[k][j].procCode = last.name
                        /\ ~topBlocks[k][j].marker}} :
                  k \in {m \in 1..Len(topBlocks) :
                           last.allowRecursive
                           \/ topBlocks[m][1].id # last.definitionRoot}}
    /\ Cardinality({last.ret[n].id : n \in 1..Len(last.ret)}) = Len(last.ret)

\* The blocks of the workspace before the pass that lie in the stack of a
\* claimed call site, the call site itself left out: the blocks in its
\* inputs.
InsideClaimedCallSite(k) == Tail(last.pre[k])

\* C11: a pass leaves every block that is no eligible call site as it was.
\* Every stack whose top block is no eligible call site (a definition,
\* another block, an insertion marker, a call block with a block below, a
\* call block whose procCode one of the snapshots lacks) is in the workspace
\* after the pass, block for block, with the ids, types, return types and
\* connections it had; and after a pass that ran to its end, so are the
\* blocks in the inputs of an eligible call site.
C11_OthersUntouched ==
  last.op = "processProcedureReturnsChanged_" =>
    /\ \A k \in (1..Len(last.pre)) \ ClaimedCallSites :
         \E m \in 1..Len(topBlocks) : topBlocks[m] = last.pre[k]
    /\ PassCompleted =>
         \A k \in ClaimedCallSites :
           /\ TopIndex(topBlocks, last.pre[k][1].id) # 0
           /\ Tail(topBlocks[TopIndex(topBlocks, last.pre[k][1].id)])
                = InsideClaimedCallSite(k)

\* A pass has rewritten a call site that has a call block in its argument.
C11_Witness ==
  /\ PassCompleted
  /\ \E k \in ClaimedCallSites :
       /\ InsideClaimedCallSite(k) # <<>>
       /\ InsideClaimedCallSite(k)[1].type = "procedures_call"
       /\ Now(last.pre[k]).ret # last.pre[k][1].ret
  /\ (1..Len(last.pre)) \ ClaimedCallSites # {}

\* C12: findLegalName terminates for every proposed name and every
\* workspace: a call that has entered its loop returns.
C12_FindLegalNameTerminates ==
  (frame.pc = "while") ~> (frame.pc = "idle" /\ last.op = "findLegalName")

\* The top-level definitions of the workspace, by their place in it.
Definitions ==
  {k \in 1..Len(topBlocks) : topBlocks[k][1].type = "procedures_definition"}

\* The ids of the statements of a stack, from the block below the block
\* with this id on.
RECURSIVE StatementIds(_, _)
StatementIds(stack, parent) ==
  IF \E i \in 1..Len(stack) : stack[i].parent = parent /\ stack[i].att = "next"
  THEN LET i == CHOOSE j \in 1..Len(stack) :
                  stack[j].parent = parent /\ stack[j].att = "next"
       IN <<stack[i].id>> \o StatementIds(stack, stack[i].id)
  ELSE <<>>

\* What is in the value slot of the block with this id: "none", "round" or
\* "hex".
ValueSlot(stack, id) ==
  IF \E i \in 1..Len(stack) : stack[i].parent = id /\ stack[i].att = "input"
  THEN IF (CHOOSE b \in {stack[i] : i \in 1..Len(stack)} :
             b.parent = id /\ b.att = "input").hex
       THEN "hex" ELSE "round"
  ELSE "none"

\* The body of the definition k: its statements from top to bottom, each
\* with its type and what its value slot holds.  It says nothing of the
\* order in which the blocks were connected.
Body(k) ==
  LET stack == topBlocks[k]
      ids == StatementIds(stack, stack[1].id)
  IN [j \in 1..Len(ids) |->
        [type |-> (CHOOSE b \in {stack[i] : i \in 1..Len(stack)} :
                     b.id = ids[j]).type,
         value |-> ValueSlot(stack, ids[j])]]

IsReturn(statement) == statement.type = "procedures_return"

IsNoReturn(statement) == statement.type # "procedures_return"

\* The body of m is the body of k with its statements that are no return
\* blocks permuted: the return blocks, each with its value, are the same in
\* the same order, and every other statement is there as often.
PermutedBody(k, m) ==
  /\ SelectSeq(Body(k), IsReturn) = SelectSeq(Body(m), IsReturn)
  /\ Len(Body(k)) = Len(Body(m))
  /\ \A x \in {Body(k)[j] : j \in 1..Len(Body(k))}
            \cup {Body(m)[j] : j \in 1..Len(Body(m))} :
       IsNoReturn(x) =>
         Cardinality({j \in 1..Len(Body(k)) : Body(k)[j] = x})
           = Cardinality({j \in 1..Len(Body(m)) : Body(m)[j] = x})

\* The type getAllProcedureReturnTypes has given the definition k.
TypeGiven(k) == last.ret[customBlock(topBlocks[k]).procCode]

\* C13: the return type of a definition depends on the shape of its body
\* alone: two definitions with the same body get the same type, and so do
\* two definitions whose bodies differ by a permutation of the statements
\* that are no return blocks.
C13_TypeDependsOnBodyAlone ==
  last.op = "getAllProcedureReturnTypes" =>
    \A k, m \in Definitions :
      (Body(k) = Body(m) \/ PermutedBody(k, m)) => TypeGiven(k) = TypeGiven(m)

\* C16: a return block whose value slot is empty never counts as a boolean
\* return: a definition whose return blocks all have empty value slots is
\* given the type REPORTER, in whatever order the host lists its blocks.
C16_EmptyReturnIsNoBooleanReturn ==
  last.op = "getAllProcedureReturnTypes" =>
    \A k \in Definitions :
      (/\ SelectSeq(Body(k), IsReturn) # <<>>
       /\ \A j \in 1..Len(Body(k)) :
            IsReturn(Body(k)[j]) => Body(k)[j].value = "none")
        => TypeGiven(k) = "reporter"

\* The prototype blocks of the workspace, by their place among all blocks.
Prototypes ==
  {i \in 1..Len(getAllBlocks(topBlocks)) :
     getAllBlocks(topBlocks)[i].type = PROCEDURES_PROTOTYPE_BLOCK_TYPE}

\* The list holds the return block template.
ReturnEntriesIncluded ==
  \E i \in 1..Len(last.ret) : last.ret[i] = ReturnBlock

\* The entries of the list from this place on.
EntriesFrom(first) == SubSeq(last.ret, first, Len(last.ret))

\* The entries are procedures_call templates in case-insensitive procCode
\* order.
SortedCallTemplates(entries) ==
  /\ \A i \in 1..Len(entries) :
       entries[i].tag = "block" /\ entries[i].type = PROCEDURES_CALL_BLOCK_TYPE
  /\ \A i, j \in 1..Len(entries) :
       i < j => compareStrings(entries[i].procCode, entries[j].procCode) <= 0

\* How many of the entries carry this procCode.
TemplatesOf(entries, procCode) ==
  Cardinality({i \in 1..Len(entries) : entries[i].procCode = procCode})

\* One entry for each prototype block.
OnePerPrototype(entries) ==
  \A procCode \in FlyoutNames :
    TemplatesOf(entries, procCode)
      = Cardinality({i \in Prototypes :
                       getAllBlocks(topBlocks)[i].procCode = procCode})

\* One entry for each procCode that some prototype block carries.
OnePerProcCode(entries) ==
  \A procCode \in FlyoutNames :
    TemplatesOf(entries, procCode)
      = IF \E i \in Prototypes : getAllBlocks(topBlocks)[i].procCode = procCode
        THEN 1 ELSE 0

\* C14, as the code has it: when the return entries are included the list
\* starts with the help button, the return block template and then the
\* create button, otherwise with the create button; then comes one
\* procedures_call template for each procedures_prototype block of the
\* workspace, in case-insensitive procCode order.
C14_ReturnEntriesComeFirst ==
  last.op = "flyoutCategory" =>
    IF ReturnEntriesIncluded
    THEN /\ Len(last.ret) >= 3
         /\ last.ret[1] = ReturnDocsButton
         /\ last.ret[2] = ReturnBlock
         /\ last.ret[3] = CreateButton
         /\ SortedCallTemplates(EntriesFrom(4))
         /\ OnePerPrototype(EntriesFrom(4))
    ELSE /\ Len(last.ret) >= 1
         /\ last.ret[1] = CreateButton
         /\ SortedCallTemplates(EntriesFrom(2))
         /\ OnePerPrototype(EntriesFrom(2))

\* C14, as the specification has it: the create button comes first, then
\* (when they are included) the help button and the return block template,
\* then one procedures_call template for each distinct procCode, in
\* case-insensitive procCode order.
C14_CreateButtonComesFirst ==
  last.op = "flyoutCategory" =>
    /\ Len(last.ret) >= 1
    /\ last.ret[1] = CreateButton
    /\ IF ReturnEntriesIncluded
       THEN /\ Len(last.ret) >= 3
            /\ last.ret[2] = ReturnDocsButton
            /\ last.ret[3] = ReturnBlock
            /\ SortedCallTemplates(EntriesFrom(4))
            /\ OnePerProcCode(EntriesFrom(4))
       ELSE /\ SortedCallTemplates(EntriesFrom(2))
            /\ OnePerProcCode(EntriesFrom(2))

\* The return entries are listed together with the templates of two
\* procedures that the workspace holds in the opposite order.
C14_Witness ==
  /\ last.op = "flyoutCategory"
  /\ ReturnEntriesIncluded
  /\ Len(topBlocks) >= 2
  /\ compareStrings(customBlock(topBlocks[1]).procCode,
                    customBlock(topBlocks[2]).procCode) > 0
  /\ Len(last.ret) >= 5

\* Some definition of the workspace returns a value.
ReturningProcedureExists ==
  \E k \in 1..Len(topBlocks) :
    /\ topBlocks[k][1].type = PROCEDURES_DEFINITION_BLOCK_TYPE
    /\ getBlockReturnType(topBlocks[k]) # PROCEDURES_CALL_TYPE_STATEMENT

\* C15: the return entries are listed whenever DEFAULT_ENABLE_RETURNS is
\* true, however many procedures there are; when it is false they are listed
\* only if returns are enabled for the workspace or some procedure returns a
\* value.
C15_ReturnEntriesWhenEnabled ==
  last.op = "flyoutCategory" =>
    /\ DEFAULT_ENABLE_RETURNS => ReturnEntriesIncluded
    /\ (~DEFAULT_ENABLE_RETURNS /\ ReturnEntriesIncluded) =>
         (procedureReturnsEnabled \/ ReturningProcedureExists)

\* C17: every procCode that getAllProcedureReturnTypes lists has there the
\* type that getProcedureReturnType gives for it, also when several
\* definitions carry the procCode or some definition is an insertion marker.
C17_AllTypesAgreeWithSingleType ==
  last.op = "getAllProcedureReturnTypes" =>
    \A procCode \in DOMAIN last.ret :
      last.ret[procCode] = getProcedureReturnType(procCode, topBlocks)

\* The blocks the edit is to reach: the prototype of the definition that is
\* found and every procedures_call block of the name, in any stack.
MutatedSites ==
  {getPrototypeBlock(last.name, last.pre)}
  \cup {getAllBlocks(last.pre)[i].id :
          i \in {j \in 1..Len(getAllBlocks(last.pre)) :
                   /\ getAllBlocks(last.pre)[j].type = PROCEDURES_CALL_BLOCK_TYPE
                   /\ getAllBlocks(last.pre)[j].procCode = last.name}}

\* The block as the edit leaves it: the procCode of the new mutation, all
\* else as it was.
Edited(block) == [block EXCEPT !.procCode = last.mutation.procCode]

\* C18: when a definition of name exists, mutateCallersAndPrototype gives
\* the prototype and every call of name, recursive ones included, the
\* procCode of the new mutation, each block keeps the return type it had and
\* no other block changes (a call that throws has reached only some of the
\* blocks); when no definition exists no block changes and no change event
\* is fired.
C18_MutationKeepsReturnTypes ==
  last.op = "mutateCallersAndPrototype" =>
    IF getDefineBlock(last.name, last.pre) # 0
    THEN /\ Len(topBlocks) = Len(last.pre)
         /\ \A k \in 1..Len(last.pre) :
              /\ Len(topBlocks[k]) = Len(last.pre[k])
              /\ \A i \in 1..Len(last.pre[k]) :
                   IF last.pre[k][i].id \in MutatedSites
                   THEN /\ topBlocks[k][i].ret = last.pre[k][i].ret
                        /\ topBlocks[k][i] \in {last.pre[k][i], Edited(last.pre[k][i])}
                        /\ ~last.threw => topBlocks[k][i] = Edited(last.pre[k][i])
                   ELSE topBlocks[k][i] = last.pre[k][i]
    ELSE /\ topBlocks = last.pre
         /\ EventPositions("BlockChange") = {}

\* A procedure with a caller of another return type than the new mutation
\* has been edited to another procCode.
C18_Witness ==
  /\ last.op = "mutateCallersAndPrototype"
  /\ ~last.threw
  /\ last.mutation.procCode # last.name
  /\ \E k \in 1..Len(last.pre) :
       /\ last.pre[k][1].type = PROCEDURES_CALL_BLOCK_TYPE
       /\ last.pre[k][1].procCode = last.name
       /\ last.pre[k][1].ret # last.mutation.ret
       /\ topBlocks[k][1].procCode = last.mutation.procCode
  /\ EventPositions("BlockChange") # {}

\* C19: a pass that follows a pass with no edit in between, its snapshot the
\* types the first pass computed, rewrites no call site and asks for no
\* refresh of the toolbox, whatever USER_CAN_CHANGE_CALL_TYPE is.
C19_SecondPassChangesNothing ==
  (last.op = "processProcedureReturnsChanged_"
     /\ last.previous = "processProcedureReturnsChanged_") =>
    /\ last.changed = <<>>
    /\ topBlocks = last.pre
    /\ EventPositions("refreshToolboxSelection_") = {}

====
